---- MODULE Spec2Model ----
(***************************************************************************)
(* Two-tower retrieval model (src/src/two_tower_base_retrieval.py).        *)
(*                                                                         *)
(* Two specifications share this module.                                   *)
(*   Spec       the loss section of TwoTowerBaseRetrieval.train_forward    *)
(*              (lines 259-299), applied to the per-row cross entropy of   *)
(*              the B x B score matrix, the labels and the positions.      *)
(*   SpecShapes the tensor shapes of the towers, the history encoder and   *)
(*              the positional table, and the calls that reach them.       *)
(*                                                                         *)
(* Floating point values are exact rationals n/d extended with d = 0 for   *)
(* the IEEE special values: 1/0 is +inf, -1/0 is -inf, 0/0 is NaN.  The    *)
(* sign of a zero is not kept (IEEE compares -0.0 equal to 0.0).           *)
(***************************************************************************)
EXTENDS Integers, Sequences, FiniteSets, TLC

\* ------------------------------------------------------------------ bounds
\* largest batch size B
MaxB == 2
\* largest embedding or feature width (DU, DI, IU, II)
MaxDim == 3
\* largest history length H
MaxH == 2

\* the position buckets the batches index, out of the num_embeddings = 100
\* rows of the table
Buckets == {0, 1}
\* values of a reward label
LabelValues == {0, 1}
\* values of a user value weight
WeightValues == {-1, 0, 1}
\* values of a learned position bias
BiasValues == {-1, 0, 1}
\* values of a per-row cross entropy (never negative)
CrossEntropyValues == {0, 1}
\* the reward labels of an example (T of them)
Rewards == 1..2

\* ------------------------------------------------------- float arithmetic
Abs(x) == IF x < 0 THEN -x ELSE x

Sign(x) == IF x < 0 THEN -1 ELSE IF x > 0 THEN 1 ELSE 0

RECURSIVE GCD(_, _)
GCD(a, b) == IF b = 0 THEN a ELSE GCD(b, a % b)

\* the float n/d in lowest terms; d = 0 gives +inf, -inf or NaN
Norm(n, d) ==
    IF d = 0 THEN [n |-> Sign(n), d |-> 0]
    ELSE LET g == GCD(Abs(n), Abs(d))
         IN  [n |-> (Sign(d) * n) \div g, d |-> Abs(d) \div g]

NaN == [n |-> 0, d |-> 0]

FromInt(v) == [n |-> v, d |-> 1]

IsNaN(x) == x.d = 0 /\ x.n = 0

IsFinite(x) == x.d # 0

FAdd(x, y) ==
    IF x.d = 0 /\ y.d = 0 THEN (IF x = y THEN x ELSE NaN)
    ELSE Norm(x.n * y.d + y.n * x.d, x.d * y.d)

FMul(x, y) == Norm(x.n * y.n, x.d * y.d)

\* x / y: torch division of floats never raises; x/0 is inf or NaN
FDiv(x, y) ==
    Norm(x.n * y.d * (IF y.n < 0 THEN -1 ELSE 1), x.d * Abs(y.n))

\* x >= 0 as IEEE decides it: false for NaN
FNonNeg(x) == ~IsNaN(x) /\ x.n >= 0

RECURSIVE SumInt(_, _)
SumInt(f, n) == IF n = 0 THEN 0 ELSE f[n] + SumInt(f, n - 1)

RECURSIVE SumFloat(_, _)
SumFloat(f, n) == IF n = 0 THEN FromInt(0) ELSE FAdd(f[n], SumFloat(f, n - 1))

\* --------------------------------------------- train_forward, lines 259-299
Batch(B) == 1..B

\* torch.matmul(labels, self.user_value_weights): one value per example
MatMul(labels, weights, B) ==
    [i \in Batch(B) |-> SumInt([t \in Rewards |-> labels[i][t] * weights[t]],
                               Cardinality(Rewards))]

\* self.position_bias_net_user_value(position).squeeze(1)
PositionBiasLookup(table, position, B) ==
    [i \in Batch(B) |-> table[position[i]]]

\* F.mse_loss(input, target, reduction="mean")
MseLoss(input, target, B) ==
    Norm(SumInt([i \in Batch(B) |-> (input[i] - target[i]) * (input[i] - target[i])], B), B)

\* a variant that measures the value left after the subtraction of line 285
PositionBiasLossOfDebiased(net_user_value, position_bias, B) ==
    MseLoss([i \in Batch(B) |-> net_user_value[i] - position_bias[i]], position_bias, B)

\* the argument of F.mse_loss at lines 279-283: the value of line 272
PositionBiasLoss(net_user_value, position_bias, B) ==
    MseLoss(net_user_value, position_bias, B)

\* net_user_value - position_bias
Debias(net_user_value, position_bias, B) ==
    [i \in Batch(B) |-> net_user_value[i] - position_bias[i]]

\* a variant that clamps from above: torch.clamp(x, max=0)
ClampMax(net_user_value, B) ==
    [i \in Batch(B) |-> IF net_user_value[i] > 0 THEN 0 ELSE net_user_value[i]]

\* torch.clamp(x, min=0)
Clamp(net_user_value, B) ==
    [i \in Batch(B) |-> IF net_user_value[i] < 0 THEN 0 ELSE net_user_value[i]]

\* torch.max(x)
TorchMax(x, B) == CHOOSE m \in {x[i] : i \in Batch(B)} : \A i \in Batch(B) : x[i] <= m

\* a variant that takes the maximum after the clamp
DivisorPostClamp(net_user_value, B) ==
    TorchMax([i \in Batch(B) |-> IF net_user_value[i] < 0 THEN 0 ELSE net_user_value[i]], B)

\* the divisor of line 290: the maximum of net_user_value as it is before
\* the assignment, that is before the clamp
Divisor(net_user_value, B) == TorchMax(net_user_value, B)

\* torch.clamp(net_user_value, min=0) / torch.max(net_user_value)
Normalize(net_user_value, B) ==
    [i \in Batch(B) |->
        FDiv(FromInt(Clamp(net_user_value, B)[i]), FromInt(Divisor(net_user_value, B)))]

\* loss * net_user_value
WeightLoss(loss, weight, B) ==
    [i \in Batch(B) |-> FMul(FromInt(loss[i]), weight[i])]

\* torch.mean(loss)
Mean(loss, B) == FDiv(SumFloat(loss, B), FromInt(B))

\* a variant that returns the weighted mean alone
AddPositionBiasLossDropped(loss, position_bias_loss) == loss

\* loss + position_bias_loss, after the mean
AddPositionBiasLoss(loss, position_bias_loss) == FAdd(loss, position_bias_loss)

\* The locals of train_forward from line 259 to the return of line 299.
\* cross_entropy is the result of F.cross_entropy(scores, arange(B),
\* reduction="none") at lines 265-269.
LossLocals(enable, table, weights, labels, position, cross_entropy, B) ==
    LET net_user_value == MatMul(labels, weights, B)
        position_bias ==
            IF enable THEN PositionBiasLookup(table, position, B)
            ELSE [i \in Batch(B) |-> 0]
        position_bias_loss ==
            IF enable THEN PositionBiasLoss(net_user_value, position_bias, B)
            ELSE FromInt(0)
        debiased ==
            IF enable THEN Debias(net_user_value, position_bias, B)
            ELSE net_user_value
        weight == Normalize(debiased, B)
        weighted == WeightLoss(cross_entropy, weight, B)
        mean == Mean(weighted, B)
    IN  [pc |-> "returned",
         B |-> B,
         labels |-> labels,
         position |-> position,
         cross_entropy |-> cross_entropy,
         net_user_value |-> net_user_value,
         position_bias |-> position_bias,
         position_bias_loss |-> position_bias_loss,
         debiased |-> debiased,
         divisor |-> Divisor(debiased, B),
         weight |-> weight,
         weighted |-> weighted,
         mean |-> mean,
         loss |-> IF enable THEN AddPositionBiasLoss(mean, position_bias_loss)
                  ELSE mean]

\* ----------------------------------------------------------- tensor shapes
\* A tensor is known by its shape, a sequence of sizes; an operation gives a
\* tensor or raises.
Tensor(shape) == [ok |-> TRUE, shape |-> shape, error |-> "none"]

Raise(error) == [ok |-> FALSE, shape |-> <<>>, error |-> error]

\* the first exception raised among xs, evaluated left to right
RECURSIVE FirstRaised(_)
FirstRaised(xs) ==
    IF ~Head(xs).ok THEN Head(xs) ELSE FirstRaised(Tail(xs))

AllOk(xs) == \A k \in 1..Len(xs) : xs[k].ok

\* the shape with the size at index k (from 1) replaced
SetSize(shape, k, size) == [shape EXCEPT ![k] = size]

\* the shape without index k
DropSize(shape, k) ==
    [j \in 1..(Len(shape) - 1) |-> IF j < k THEN shape[j] ELSE shape[j + 1]]

\* the shape with size put in at index k
InsertSize(shape, k, size) ==
    [j \in 1..(Len(shape) + 1) |->
        IF j < k THEN shape[j] ELSE IF j = k THEN size ELSE shape[j - 1]]

\* nn.Linear(in_features, out_features)
Linear(in_features, out_features) ==
    [in_features |-> in_features, out_features |-> out_features]

\* nn.Linear.forward: the last size of the input must be in_features
LinearForward(layer, x) ==
    IF ~x.ok THEN x
    ELSE IF x.shape[Len(x.shape)] # layer.in_features THEN Raise("RuntimeError")
    ELSE Tensor(SetSize(x.shape, Len(x.shape), layer.out_features))

\* nn.Embedding(num_embeddings, embedding_dim).forward on in-range indices
EmbeddingForward(embedding_dim, x) ==
    IF ~x.ok THEN x ELSE Tensor(x.shape \o <<embedding_dim>>)

\* torch.cat(xs, dim=1): equal ranks, equal sizes off dimension 1
Cat1(xs) ==
    IF ~AllOk(xs) THEN FirstRaised(xs)
    ELSE IF \E k \in 1..Len(xs) :
                \/ Len(xs[k].shape) # Len(xs[1].shape)
                \/ Len(xs[k].shape) < 2
                \/ \E j \in 1..Len(xs[1].shape) :
                      j # 2 /\ xs[k].shape[j] # xs[1].shape[j]
         THEN Raise("RuntimeError")
    ELSE Tensor(SetSize(xs[1].shape, 2,
                        SumInt([k \in 1..Len(xs) |-> xs[k].shape[2]], Len(xs))))

\* torch.stack(xs, dim=1): every tensor of the same shape
Stack1(xs) ==
    IF ~AllOk(xs) THEN FirstRaised(xs)
    ELSE IF \E k \in 1..Len(xs) : xs[k].shape # xs[1].shape THEN Raise("RuntimeError")
    ELSE Tensor(InsertSize(xs[1].shape, 2, Len(xs)))

\* x.squeeze(dim): the dimension goes when its size is 1
Squeeze(x, dim) ==
    IF ~x.ok THEN x
    ELSE IF dim + 1 <= Len(x.shape) /\ x.shape[dim + 1] = 1
         THEN Tensor(DropSize(x.shape, dim + 1))
    ELSE x

\* x[:, 0, :]
SelectFirst(x) == IF ~x.ok THEN x ELSE Tensor(DropSize(x.shape, 2))

\* torch.mean(x, dim=1)
MeanDim1(x) == IF ~x.ok THEN x ELSE Tensor(DropSize(x.shape, 2))

\* x.permute(1, 0, 2)
Permute102(x) ==
    IF ~x.ok THEN x ELSE Tensor(<<x.shape[2], x.shape[1], x.shape[3]>>)

\* x + y with broadcasting, for tensors of one rank
BroadcastAdd(x, y) ==
    IF ~x.ok THEN x
    ELSE IF ~y.ok THEN y
    ELSE IF \E j \in 1..Len(x.shape) :
                x.shape[j] # y.shape[j] /\ x.shape[j] # 1 /\ y.shape[j] # 1
         THEN Raise("RuntimeError")
    ELSE Tensor([j \in 1..Len(x.shape) |->
                    IF x.shape[j] = 1 THEN y.shape[j] ELSE x.shape[j]])

\* nn.MultiheadAttention(embed_dim, num_heads).forward(query, key, value)
\* on one (L, N, E) tensor: E must be embed_dim; attn_output is (L, N, E)
MultiheadAttnForward(embed_dim, x) ==
    IF ~x.ok THEN x
    ELSE IF x.shape[3] # embed_dim THEN Raise("AssertionError")
    ELSE x

\* ------------------------------------------------------ positional table
\* The entries are kept as terms: sin or cos of pos / 10000^(en/ed), the
\* exponent in lowest terms.  At pos = 0 the term is the number sin(0) = 0
\* or cos(0) = 1.  Two terms at pos > 0 are the same number only when they
\* are the same term.
Number(v) == [fn |-> "number", pos |-> v, en |-> 0, ed |-> 1]

Term(fn, pos, en, ed) ==
    LET g == GCD(en, ed)
    IN  [fn |-> fn, pos |-> pos, en |-> en \div g, ed |-> ed \div g]

\* math.sin(pos / (10000 ** (en / ed)))
Sin(pos, en, ed) == IF pos = 0 THEN Number(0) ELSE Term("sin", pos, en, ed)

\* math.cos(pos / (10000 ** (en / ed)))
Cos(pos, en, ed) == IF pos = 0 THEN Number(1) ELSE Term("cos", pos, en, ed)

\* The body of positional_encoding.  The loop variable i runs over the
\* even columns: column i takes sin with exponent 2i/d_model and column
\* i + 1, when there is one, cos with exponent 2(i+1)/d_model.
PositionalEncoding(seq_len, d_model) ==
    [pos \in 0..(seq_len - 1) |->
        [col \in 0..(d_model - 1) |->
            IF col % 2 = 0 THEN Sin(pos, 2 * col, d_model)
            ELSE Cos(pos, 2 * col, d_model)]]

\* PE.flip([0])
Flip(PE, seq_len) == [pos \in 0..(seq_len - 1) |-> PE[seq_len - 1 - pos]]

\* Python's binding of a call: the positional arguments fill the first
\* parameters; a keyword that names a parameter already filled, or that
\* names none, or a parameter left unfilled, is a TypeError.
BindsCall(params, n_positional, keywords) ==
    /\ n_positional <= Len(params)
    /\ \A k \in keywords :
          \E j \in 1..Len(params) : params[j] = k /\ j > n_positional
    /\ \A j \in 1..Len(params) : j <= n_positional \/ params[j] \in keywords

\* def positional_encoding(seq_len, d_model)
PositionalEncodingParams == <<"seq_len", "d_model">>

\* UserHistoryEncoder.__init__: self.positional_encoding(seq_len=...,
\* d_model=...) is a bound call, self is its one positional argument; then
\* the flip; then nn.MultiheadAttention, which asserts that num_heads
\* divides embed_dim.
EncoderInit(item_id_embedding_dim, history_len, num_heads) ==
    IF ~BindsCall(PositionalEncodingParams, 1, {"seq_len", "d_model"})
    THEN [result |-> Raise("TypeError"), table |-> <<>>]
    ELSE IF item_id_embedding_dim % num_heads # 0
    THEN [result |-> Raise("AssertionError"), table |-> <<>>]
    ELSE [result |-> Tensor(<<history_len, item_id_embedding_dim>>),
          table |-> Flip(PositionalEncoding(history_len, item_id_embedding_dim),
                         history_len)]

\* UserHistoryEncoder.forward on an encoder whose fields are
\* item_id_embedding_dim and history_len, the positional table being
\* [history_len, item_id_embedding_dim]
EncoderForward(item_id_embedding_dim, history_len, user_history) ==
    LET positional == Tensor(<<1, history_len, item_id_embedding_dim>>)
        enriched == BroadcastAdd(user_history, positional)
        attn_output == Permute102(MultiheadAttnForward(item_id_embedding_dim,
                                                       Permute102(enriched)))
        first_item == Squeeze(SelectFirst(attn_output), 1)
        mean_value == MeanDim1(attn_output)
    IN  Stack1(<<first_item, mean_value>>)

\* the two rows of the summary for one channel of one user, attn being the
\* attended values of that channel at the positions 0..H-1
SummaryRows(attn, H) ==
    <<FromInt(attn[0]), Norm(SumInt([h \in 1..H |-> attn[h - 1]], H), H)>>

\* ------------------------------------------------------------- the towers
\* TwoTowerBaseRetrieval.__init__: the attributes it sets and the layers
\* behind them
Construct(DU, IU, DI, II, enable) ==
    [attrs |-> {"num_items", "user_value_weights", "knn_module",
                "enable_position_debiasing", "user_id_embedding_arch",
                "item_id_embedding_arch", "user_features_arch",
                "user_tower_arch", "item_features_arch", "item_tower_arch"}
               \cup (IF enable THEN {"position_bias_net_user_value"} ELSE {}),
     user_id_embedding_dim |-> DU,
     user_features_size |-> IU,
     item_id_embedding_dim |-> DI,
     item_features_size |-> II,
     user_features_arch |-> Linear(IU, DU),
     user_tower_arch |-> Linear(2 * DU + DI, DU),
     item_features_arch |-> Linear(II, DI),
     item_tower_arch |-> Linear(DI, DI)]

\* compute_item_embeddings on item_id [B] and item_features [B, II]
ComputeItemEmbeddings(m, B) ==
    LET item_id_embedding == EmbeddingForward(m.item_id_embedding_dim, Tensor(<<B>>))
        item_features_embedding ==
            LinearForward(m.item_features_arch, Tensor(<<B, m.item_features_size>>))
        item_tower_input == Cat1(<<item_id_embedding, item_features_embedding>>)
    IN  LinearForward(m.item_tower_arch, item_tower_input)

\* compute_user_embedding on user_id [B], user_features [B, IU] and
\* user_history [B, H]
ComputeUserEmbedding(m, B, H) ==
    LET user_history_embedding ==
            EmbeddingForward(m.item_id_embedding_dim, Tensor(<<B, H>>))
        user_history_summary ==
            IF "user_history_encoder" \in m.attrs
            THEN EncoderForward(m.user_history_encoder.item_id_embedding_dim,
                                m.user_history_encoder.history_len,
                                user_history_embedding)
            ELSE Raise("AttributeError")
        user_id_embedding == EmbeddingForward(m.user_id_embedding_dim, Tensor(<<B>>))
        user_features_embedding ==
            LinearForward(m.user_features_arch, Tensor(<<B, m.user_features_size>>))
        user_tower_input ==
            Cat1(<<user_id_embedding, user_features_embedding, user_history_summary>>)
    IN  IF ~user_history_summary.ok THEN user_history_summary
        ELSE LinearForward(m.user_tower_arch, user_tower_input)

\* forward: the user embedding goes to the knn module, which gives
\* [B, num_items]
Forward(m, B, H, num_items) ==
    LET user_embedding == ComputeUserEmbedding(m, B, H)
    IN  IF ~user_embedding.ok THEN user_embedding ELSE Tensor(<<B, num_items>>)

\* train_forward as a whole: the towers, the score matrix, and the scalar
\* loss of lines 259-299
TrainForwardShapes(m, B, H) ==
    LET user_embedding == ComputeUserEmbedding(m, B, H)
        item_embeddings == ComputeItemEmbeddings(m, B)
    IN  IF ~user_embedding.ok THEN user_embedding
        ELSE IF ~item_embeddings.ok THEN item_embeddings
        ELSE IF m.user_id_embedding_dim # m.item_id_embedding_dim
             THEN Raise("RuntimeError")
        ELSE Tensor(<<>>)

\* ------------------------------------------------------------------ state
VARIABLES
    user_value_weights,             \* self.user_value_weights
    enable_position_debiasing,      \* self.enable_position_debiasing
    position_bias_net_user_value,   \* the position bias table, when enabled
    model,                          \* the attributes and layers of the model
    tf,                             \* the locals of train_forward's loss section
    call                            \* the last call of a tower or the encoder

vars == <<user_value_weights, enable_position_debiasing,
          position_bias_net_user_value, model, tf, call>>

NoVector == [i \in {} |-> 0]

IdleFrame ==
    [pc |-> "idle", B |-> 0, labels |-> NoVector, position |-> NoVector,
     cross_entropy |-> NoVector, net_user_value |-> NoVector,
     position_bias |-> NoVector, position_bias_loss |-> FromInt(0),
     debiased |-> NoVector, divisor |-> 0, weight |-> NoVector,
     weighted |-> NoVector, mean |-> FromInt(0), loss |-> FromInt(0)]

NoCall ==
    [op |-> "none", B |-> 0, H |-> 0, D |-> 0, num_heads |-> 0,
     result |-> Tensor(<<>>), table |-> <<>>, rows |-> <<>>]

Called(op, B, H, D, num_heads, result, table, rows) ==
    [op |-> op, B |-> B, H |-> H, D |-> D, num_heads |-> num_heads,
     result |-> result, table |-> table, rows |-> rows]

\* TwoTowerBaseRetrieval.__init__ as the loss section sees it: the weights
\* are the constructor's argument; the position bias table exists only with
\* debiasing enabled.  The widths play no part in lines 259-299 and are
\* held at 1.
Init ==
    /\ user_value_weights \in [Rewards -> WeightValues]
    /\ enable_position_debiasing \in BOOLEAN
    /\ position_bias_net_user_value \in
           IF enable_position_debiasing THEN [Buckets -> BiasValues]
           ELSE {NoVector}
    /\ model = Construct(1, 1, 1, 1, enable_position_debiasing)
    /\ tf = IdleFrame
    /\ call = NoCall

\* the cross entropy of a 1 x 1 score matrix is -log(1) = 0
CrossEntropies(B) ==
    IF B = 1 THEN [Batch(B) -> {0}] ELSE [Batch(B) -> CrossEntropyValues]

\* lines 259-299 of train_forward, entered with the score matrix of line 251
TrainForwardLoss ==
    /\ tf.pc = "idle"
    /\ \E B \in 1..MaxB :
         \E labels \in [Batch(B) -> [Rewards -> LabelValues]],
            position \in [Batch(B) -> Buckets],
            cross_entropy \in CrossEntropies(B) :
              tf' = LossLocals(enable_position_debiasing,
                               position_bias_net_user_value,
                               user_value_weights,
                               labels, position, cross_entropy, B)
    /\ UNCHANGED <<user_value_weights, enable_position_debiasing,
                   position_bias_net_user_value, model, call>>

Next == TrainForwardLoss

Spec == Init /\ [][Next]_vars

\* TwoTowerBaseRetrieval.__init__ as the towers see it: the widths DU, IU,
\* DI, II are the constructor's arguments.  The weights and the position
\* bias table play no part in the shapes and are held at one value.
InitShapes ==
    /\ user_value_weights = [t \in Rewards |-> 1]
    /\ enable_position_debiasing \in BOOLEAN
    /\ position_bias_net_user_value =
           IF enable_position_debiasing THEN [b \in Buckets |-> 0] ELSE NoVector
    /\ \E DU \in 1..MaxDim, IU \in 1..MaxDim, DI \in 1..MaxDim, II \in 1..MaxDim :
          model = Construct(DU, IU, DI, II, enable_position_debiasing)
    /\ tf = IdleFrame
    /\ call = NoCall

Unchanged == UNCHANGED <<user_value_weights, enable_position_debiasing,
                         position_bias_net_user_value, model, tf>>

CallItemEmbeddings ==
    /\ call.op = "none"
    /\ \E B \in 1..MaxB :
          call' = Called("compute_item_embeddings", B, 0, 0, 0,
                         ComputeItemEmbeddings(model, B), <<>>, <<>>)
    /\ Unchanged

CallUserEmbedding ==
    /\ call.op = "none"
    /\ \E B \in 1..MaxB, H \in 1..MaxH :
          call' = Called("compute_user_embedding", B, H, 0, 0,
                         ComputeUserEmbedding(model, B, H), <<>>, <<>>)
    /\ Unchanged

CallForward ==
    /\ call.op = "none"
    /\ \E B \in 1..MaxB, H \in 1..MaxH, num_items \in 1..MaxB :
          call' = Called("forward", B, H, 0, 0,
                         Forward(model, B, H, num_items), <<>>, <<>>)
    /\ Unchanged

CallTrainForward ==
    /\ call.op = "none"
    /\ \E B \in 1..MaxB, H \in 1..MaxH :
          call' = Called("train_forward", B, H, 0, 0,
                         TrainForwardShapes(model, B, H), <<>>, <<>>)
    /\ Unchanged

\* UserHistoryEncoder(item_id_embedding_dim, history_len, num_heads)
CallEncoderInit ==
    /\ call.op = "none"
    /\ \E D \in 1..(MaxDim + 1), H \in 1..MaxH, num_heads \in 1..(MaxDim + 1) :
          LET made == EncoderInit(D, H, num_heads)
          IN  call' = Called("UserHistoryEncoder.__init__", 0, H, D, num_heads,
                             made.result, made.table, <<>>)
    /\ Unchanged

\* UserHistoryEncoder.positional_encoding(seq_len, d_model), called on the
\* class with two positional arguments
CallPositionalEncoding ==
    /\ call.op = "none"
    /\ \E D \in 1..(MaxDim + 1), H \in 1..MaxH :
          call' = Called("positional_encoding", 0, H, D, 0,
                         IF BindsCall(PositionalEncodingParams, 2, {})
                         THEN Tensor(<<H, D>>) ELSE Raise("TypeError"),
                         IF BindsCall(PositionalEncodingParams, 2, {})
                         THEN PositionalEncoding(H, D) ELSE <<>>,
                         <<>>)
    /\ Unchanged

\* UserHistoryEncoder.forward on a (B, H, DI) input, for an encoder of
\* width DI, history length H and num_heads heads, num_heads dividing DI
CallEncoderForward ==
    /\ call.op = "none"
    /\ \E B \in 1..MaxB, H \in 1..MaxH, D \in 1..MaxDim, num_heads \in 1..MaxDim :
          /\ D % num_heads = 0
          /\ \E attn \in [0..(H - 1) -> {0, 1}] :
                call' = Called("UserHistoryEncoder.forward", B, H, D, num_heads,
                               EncoderForward(D, H, Tensor(<<B, H, D>>)),
                               <<>>, SummaryRows(attn, H))
    /\ Unchanged

NextShapes ==
    \/ CallItemEmbeddings
    \/ CallUserEmbedding
    \/ CallForward
    \/ CallTrainForward
    \/ CallEncoderInit
    \/ CallPositionalEncoding
    \/ CallEncoderForward

SpecShapes == InitShapes /\ [][NextShapes]_vars

\* ------------------------------------------------- properties of the loss
Returned == tf.pc = "returned"

One == FromInt(1)

Zero == FromInt(0)

\* labels . user_value_weights for example i, written out
NetValueOf(i) ==
    SumInt([t \in Rewards |-> tf.labels[i][t] * user_value_weights[t]],
           Cardinality(Rewards))

AllNonPositive == \A i \in Batch(tf.B) : tf.debiased[i] <= 0

OnlyPositive(k) ==
    /\ tf.net_user_value[k] > 0
    /\ \A i \in Batch(tf.B) \ {k} : tf.net_user_value[i] <= 0

\* C1: with debiasing disabled, when exactly one example of the batch has a
\* positive net user value and the others have none, the normalized weight
\* is 1 at that example and 0 at every other, and every other example
\* contributes 0 to the weighted loss.
C1_OneHotWeight ==
    (Returned /\ ~enable_position_debiasing) =>
        \A k \in Batch(tf.B) :
            OnlyPositive(k) =>
                /\ tf.net_user_value[k] = NetValueOf(k)
                /\ tf.weight[k] = One
                /\ \A i \in Batch(tf.B) \ {k} :
                      tf.weight[i] = Zero /\ tf.weighted[i] = Zero

C1_Witness ==
    /\ Returned /\ ~enable_position_debiasing /\ tf.B >= 2
    /\ \E k \in Batch(tf.B) :
         /\ OnlyPositive(k)
         /\ \E i \in Batch(tf.B) \ {k} :
              tf.net_user_value[i] < 0 /\ tf.cross_entropy[i] > 0

ZeroTable == \A b \in Buckets : position_bias_net_user_value[b] = 0

MeanSquareNetValue ==
    Norm(SumInt([i \in Batch(tf.B) |-> NetValueOf(i) * NetValueOf(i)], tf.B), tf.B)

LossWithoutDebiasing ==
    LossLocals(FALSE, NoVector, user_value_weights, tf.labels,
               tf.position, tf.cross_entropy, tf.B).loss

\* C2: with debiasing enabled and a position bias table of zeros, the loss
\* returned is the loss of the same model without debiasing on the same
\* batch plus the mean of the squared net user values.
C2_ZeroBiasLoss ==
    (Returned /\ enable_position_debiasing /\ ZeroTable) =>
        tf.loss = FAdd(LossWithoutDebiasing, MeanSquareNetValue)

C2_Witness ==
    /\ Returned /\ enable_position_debiasing /\ ZeroTable /\ tf.B >= 2
    /\ IsFinite(tf.loss)
    /\ LossWithoutDebiasing # Zero
    /\ MeanSquareNetValue # Zero
    /\ \E i, j \in Batch(tf.B) : tf.position[i] # tf.position[j]

\* C3: with debiasing disabled the returned loss is a non-negative number,
\* never NaN.
C3_LossNonNegative ==
    (Returned /\ ~enable_position_debiasing) => FNonNeg(tf.loss)

\* C4 as stated: the divisor of step 6 is the maximum of the clamped values,
\* so it is 0 whenever no example has a positive net user value.
C4_DivisorIsPostClampMax ==
    Returned =>
        /\ tf.divisor = TorchMax(Clamp(tf.debiased, tf.B), tf.B)
        /\ AllNonPositive => tf.divisor = 0

\* C4 as amended: the divisor of step 6 is the maximum of the net user
\* values as they are before the clamp.  It is 0, and every weight is NaN,
\* exactly when that maximum is 0; when every value is negative the divisor
\* is negative and every weight is 0.
C4_DivisorIsPreClampMax ==
    Returned =>
        /\ \E i \in Batch(tf.B) : tf.divisor = tf.debiased[i]
        /\ \A i \in Batch(tf.B) : tf.debiased[i] <= tf.divisor
        /\ \A i \in Batch(tf.B) :
              tf.weight[i] =
                  IF tf.divisor = 0 THEN NaN
                  ELSE IF tf.debiased[i] < 0 THEN Zero
                  ELSE Norm(tf.debiased[i], tf.divisor)

C4_Witness ==
    /\ Returned /\ tf.B >= 2
    /\ \A i \in Batch(tf.B) : tf.debiased[i] < 0
    /\ tf.divisor < 0
    /\ \A i \in Batch(tf.B) : tf.weight[i] = Zero

C10_DebiasingOrder ==
    (Returned /\ enable_position_debiasing) =>
        LET bias == [i \in Batch(tf.B) |-> position_bias_net_user_value[tf.position[i]]]
            residual == [i \in Batch(tf.B) |-> NetValueOf(i) - bias[i]]
            top == TorchMax(residual, tf.B)
            w == [i \in Batch(tf.B) |->
                    FDiv(FromInt(IF residual[i] < 0 THEN 0 ELSE residual[i]), FromInt(top))]
            mse == Norm(SumInt([i \in Batch(tf.B) |-> residual[i] * residual[i]], tf.B), tf.B)
            ce == [i \in Batch(tf.B) |-> FMul(FromInt(tf.cross_entropy[i]), w[i])]
        IN  /\ tf.position_bias = bias
            /\ tf.position_bias_loss = mse
            /\ tf.debiased = residual
            /\ tf.weight = w
            /\ tf.mean = FDiv(SumFloat(ce, tf.B), FromInt(tf.B))
            /\ tf.loss = FAdd(tf.mean, mse)

C10_Witness ==
    /\ Returned /\ enable_position_debiasing /\ tf.B >= 2
    /\ \E i \in Batch(tf.B) : tf.position_bias[i] # 0
    /\ tf.position_bias_loss # Zero
    /\ IsFinite(tf.loss)
    /\ tf.mean # Zero
    /\ \E i \in Batch(tf.B) : tf.weight[i] # One /\ tf.weight[i] # Zero

\* ----------------------------------------------- properties of the shapes
\* C6: compute_item_embeddings on item ids [B] and item features [B, II]
\* completes with an embedding of shape [B, DI].
C6_ItemEmbeddingShape ==
    call.op = "compute_item_embeddings" =>
        call.result = Tensor(<<call.B, model.item_id_embedding_dim>>)

\* C7: compute_user_embedding on user ids [B], user features [B, IU] and a
\* history [B, H] completes with an embedding of shape [B, DU].
C7_UserEmbeddingShape ==
    call.op = "compute_user_embedding" =>
        call.result = Tensor(<<call.B, model.user_id_embedding_dim>>)

\* C8: UserHistoryEncoder.forward on a (B, H, DI) input, DI divisible by
\* num_heads and DI = 1 included, gives a (B, 2, DI) tensor.
C8_SummaryShape ==
    call.op = "UserHistoryEncoder.forward" =>
        call.result = Tensor(<<call.B, 2, call.D>>)

\* the table of the specification: column 2i is sin(pos / 10000^(2i/D)),
\* column 2i+1 is cos(pos / 10000^(2(i+1)/D))
ReferenceTable(H, D) ==
    [pos \in 0..(H - 1) |->
        [col \in 0..(D - 1) |->
            IF col % 2 = 0 THEN Sin(pos, col, D) ELSE Cos(pos, col + 1, D)]]

\* C9: constructing the encoder gives the reference table reversed along
\* the position axis, row 0 being the row generated for pos = H - 1; the
\* table positional_encoding generates is the reference table.
C9_ReversedReferenceTable ==
    /\ (call.op = "UserHistoryEncoder.__init__" /\ call.D % call.num_heads = 0) =>
          /\ call.result.ok
          /\ call.table = Flip(ReferenceTable(call.H, call.D), call.H)
          /\ call.table[0] = ReferenceTable(call.H, call.D)[call.H - 1]
    /\ call.op = "positional_encoding" =>
          call.table = ReferenceTable(call.H, call.D)

====
